---- MODULE Spec2Model ----
(***************************************************************************)
(* MoodWatch: the pulse scheduler (app/camera_schedule.py) and the pulse   *)
(* recorder (app/openface_pulse.py).                                       *)
(*                                                                         *)
(* Time is the monotonic clock in milliseconds.  Feature values (Action    *)
(* Unit intensities, pose angles) are held in units of 0.001; classifier   *)
(* scores in units of 0.0001, so that the weights 0.5 and 0.3 stay exact.  *)
(***************************************************************************)
EXTENDS Integers, Sequences, FiniteSets, TLC

(***************************************************************************)
(* Configuration (camera_schedule.py, lines 7-15), in milliseconds.        *)
(***************************************************************************)
FIRST_OFFSET == 2000
PULSE_DURATION == 6000
RECURRING_GAP == 100000
REOPEN_COOLDOWN == 300
MIN_LEAD == 200

\* openface_pulse.py line 15 (DEBUG_Off: the flag flipped, as its comment
\* in the source suggests doing)
DEBUG_Off == FALSE
DEBUG == TRUE

\* sleeps of the polling loops
FIRST_POLL == 100
COUNTDOWN_POLL == 1000
READ_FAIL_SLEEP == 10
WARMUP_READS == 8
WARMUP_SLEEP == 20
WAITKEY_DELAY == 1

(***************************************************************************)
(* Bounds of the model and the inputs of the environment.                  *)
(***************************************************************************)
\* number of pulses (calls of run_preview) a run of the model follows
MaxPulses == 2

\* time a successful cap.read() takes (a slow camera)
FrameLatencies == {2999}
\* time a failing cap.read() takes before it reports failure
FailLatencies == {2990}
\* time one warm-up read takes (a slow camera: the warm-up of open_cam
\* lasts 3 s, so an iteration of the capture loop begins at run_preview's
\* entry + PULSE_DURATION, before the loop's own deadline)
WarmupLatencies == {355}
\* time the extraction tool runs: short, or longer than one recurring gap
ExtractTimes == {500, 120000}

Max(a, b) == IF a >= b THEN a ELSE b
Min(a, b) == IF a <= b THEN a ELSE b

\* A CSV cell is <<>> when empty and <<v>> when it holds the value v
Empty == <<>>
Cell(v) == <<v>>

(***************************************************************************)
(* Channels (openface_pulse.py, _summarize_csv lines 117-121) and the      *)
(* session log's header (_append_session_row lines 200-204).               *)
(***************************************************************************)
aus == <<"AU01_r", "AU02_r", "AU04_r", "AU06_r", "AU07_r", "AU09_r", "AU10_r",
         "AU12_r", "AU14_r", "AU15_r", "AU17_r", "AU20_r", "AU23_r", "AU25_r",
         "AU26_r", "AU45_c">>
pose == <<"pose_Rx", "pose_Ry", "pose_Rz">>
header == <<"ts", "session_id", "dur_s", "frames",
            "AU01_r", "AU02_r", "AU04_r", "AU06_r", "AU12_r", "AU15_r", "AU20_r",
            "AU25_r", "AU26_r", "AU45_c",
            "pose_Rx", "pose_Ry", "pose_Rz",
            "avg_smile", "avg_furrow", "avg_mouthop", "blink_presence_mean",
            "expr", "expr_score", "src_csv">>

Range(s) == {s[i] : i \in 1..Len(s)}
Channels == Range(aus) \cup Range(pose)
HeaderKeys == Range(header)

\* dict.get(k, default)
Get(d, k, default) == IF k \in DOMAIN d THEN d[k] ELSE default

(***************************************************************************)
(* CSV files.  A file is a sequence of lines: the header line (the column  *)
(* names) and then the rows; a row maps each column name to a cell.        *)
(***************************************************************************)
SmileRow == [k \in Channels |->
               CASE k = "AU12_r" -> Cell(900)
                 [] k = "AU06_r" -> Cell(800)
                 [] k = "AU04_r" -> Cell(100)
                 [] k = "AU25_r" -> Cell(100)
                 [] k = "AU45_c" -> Empty
                 [] OTHER -> Cell(0)]
FrownRow == [k \in Channels |->
               CASE k = "AU12_r" -> Cell(100)
                 [] k = "AU04_r" -> Cell(700)
                 [] k = "AU01_r" -> Cell(500)
                 [] k = "AU15_r" -> Cell(300)
                 [] k = "AU45_c" -> Cell(1000)
                 [] k = "pose_Rx" -> Empty
                 [] OTHER -> Cell(0)]
ToolHeader == aus \o pose
EmptyTable == <<ToolHeader>>
FaceTable == <<ToolHeader, SmileRow, FrownRow>>
\* the tables the extraction tool may write
ToolTables == {EmptyTable, FaceTable}

RECURSIVE SumSeq(_)
SumSeq(xs) == IF xs = <<>> THEN 0 ELSE Head(xs) + SumSeq(Tail(xs))

\* (Series_EmptyAsZero: an empty cell taken as the value 0)
RECURSIVE Series_EmptyAsZero(_, _)
Series_EmptyAsZero(table, k) ==
  IF table = <<>> THEN <<>>
  ELSE (IF Get(Head(table), k, Empty) = Empty THEN <<0>> ELSE Get(Head(table), k, Empty))
       \o Series_EmptyAsZero(Tail(table), k)
\* series[k] of _summarize_csv: the non-empty cells of column k, in row order
RECURSIVE Series(_, _)
Series(table, k) ==
  IF table = <<>> THEN <<>>
  ELSE Get(Head(table), k, Empty) \o Series(Tail(table), k)

Mean(xs) == IF xs /= <<>> THEN SumSeq(xs) \div Len(xs) ELSE 0

\* _t_start is None until start() has set it
NoTime == -1

SummaryKeys == Channels \cup {"avg_smile", "avg_furrow", "avg_mouthop",
                              "valence_proxy", "arousal_proxy", "frames", "dur_s"}

\* csv.DictReader: the lines after the header line are the rows
DataRows(lines) == IF lines = <<>> THEN <<>> ELSE Tail(lines)

\* (summarize_csv_SkipUnseen: a channel without a value gets no key)
summarize_csv_SkipUnseen(lines, tStart, tEnd) ==
  LET table == DataRows(lines)
      seen == {k \in Channels : Series(table, k) /= <<>>}
      out == [k \in Channels |-> Mean(Series(table, k))]
  IN  IF Len(table) = 0 THEN [k \in {} |-> 0]
      ELSE [k \in seen \cup (SummaryKeys \ Channels) |->
              CASE k \in Channels -> out[k]
                [] k = "avg_smile" -> out["AU12_r"]
                [] k = "avg_furrow" -> out["AU04_r"]
                [] k = "avg_mouthop" -> out["AU26_r"]
                [] k = "valence_proxy" -> out["AU12_r"] - out["AU04_r"]
                [] k = "arousal_proxy" -> out["AU25_r"] + out["AU26_r"] + out["AU45_c"]
                [] k = "frames" -> Len(table)
                [] k = "dur_s" -> IF tStart /= NoTime THEN Max(1, tEnd - tStart) ELSE 0]
\* OpenFacePulse._summarize_csv
summarize_csv(lines, tStart, tEnd) ==
  LET table == DataRows(lines) IN
  IF Len(table) = 0 THEN [k \in {} |-> 0]
  ELSE LET out == [k \in Channels |-> Mean(Series(table, k))]
       IN  [k \in SummaryKeys |->
              CASE k \in Channels -> out[k]
                [] k = "avg_smile" -> out["AU12_r"]
                [] k = "avg_furrow" -> out["AU04_r"]
                [] k = "avg_mouthop" -> out["AU26_r"]
                [] k = "valence_proxy" -> out["AU12_r"] - out["AU04_r"]
                [] k = "arousal_proxy" -> out["AU25_r"] + out["AU26_r"] + out["AU45_c"]
                [] k = "frames" -> Len(table)
                [] k = "dur_s" -> IF tStart /= NoTime THEN Max(1, tEnd - tStart) ELSE 0]

(***************************************************************************)
(* OpenFacePulse._classify_expression.  Scores are in units of 0.0001.     *)
(***************************************************************************)
T_smile == 300
T_duchenne == 150
T_anger_tense == 250

\* (AU_KeyMismatch: the channel looked up under a name the summary does not
\* have, so that every read yields the default)
AU_KeyMismatch(s, k) == 0
AU(s, k) == Get(s, k, 0)

score_happy(s) ==
  Max(0, 10 * AU(s, "AU12_r") - 5 * AU(s, "AU04_r"))
  + (IF AU(s, "AU12_r") > T_smile /\ AU(s, "AU06_r") > T_duchenne THEN 2000 ELSE 0)
\* (score_sad_NoMouth: the AU15 term of line 172 left out)
score_sad_NoMouth(s) ==
  Max(0, 5 * (AU(s, "AU01_r") + AU(s, "AU04_r")) - 5 * AU(s, "AU12_r"))
score_sad(s) ==
  Max(0, 5 * (AU(s, "AU01_r") + AU(s, "AU04_r")) + 10 * AU(s, "AU15_r") - 5 * AU(s, "AU12_r"))
score_anger(s) ==
  Max(0, 10 * AU(s, "AU04_r") + 5 * AU(s, "AU07_r") - 5 * AU(s, "AU12_r"))
  + (IF AU(s, "AU23_r") > T_anger_tense THEN 1000 ELSE 0)
score_surprise(s) ==
  Max(0, 5 * (AU(s, "AU01_r") + AU(s, "AU02_r")) + 10 * AU(s, "AU26_r"))
score_disgust(s) ==
  Max(0, 10 * (AU(s, "AU09_r") + AU(s, "AU10_r")) - 3 * AU(s, "AU12_r"))
score_neutral(s) ==
  Max(0, 10000 - 10 * (AU(s, "AU12_r") + AU(s, "AU04_r") + AU(s, "AU26_r")))

\* (candidates_Unclamped: the min(1.0, ...) of lines 169-191 left out)
candidates_Unclamped(s) ==
  << <<"happy", score_happy(s)>>,
     <<"sad", score_sad(s)>>,
     <<"anger", score_anger(s)>>,
     <<"surprise", score_surprise(s)>>,
     <<"disgust", score_disgust(s)>>,
     <<"neutral", score_neutral(s)>> >>
candidates(s) ==
  << <<"happy", Min(10000, score_happy(s))>>,
     <<"sad", Min(10000, score_sad(s))>>,
     <<"anger", Min(10000, score_anger(s))>>,
     <<"surprise", Min(10000, score_surprise(s))>>,
     <<"disgust", Min(10000, score_disgust(s))>>,
     <<"neutral", Min(10000, score_neutral(s))>> >>

\* (FirstMax_Last: a maximum search that keeps the last maximal element)
FirstMax_Last(cs) ==
  LET i == CHOOSE i \in 1..Len(cs) :
             /\ \A j \in 1..Len(cs) : cs[j][2] <= cs[i][2]
             /\ \A j \in (i + 1)..Len(cs) : cs[j][2] < cs[i][2]
  IN  cs[i]
\* Python's max(seq, key=...): the first element whose key is maximal
FirstMax(cs) ==
  LET i == CHOOSE i \in 1..Len(cs) :
             /\ \A j \in 1..Len(cs) : cs[j][2] <= cs[i][2]
             /\ \A j \in 1..(i - 1) : cs[j][2] < cs[i][2]
  IN  cs[i]

classify_expression(s) == FirstMax(candidates(s))

(***************************************************************************)
(* The output directory OUT_DIR: its *.csv files, oldest modification      *)
(* first.  A file is [name, lines]; session_summary.csv lives in the same  *)
(* directory as the tool's tables.                                         *)
(***************************************************************************)
SessionCsv == [kind |-> "session_summary", ts |-> 0]
TableName(sec) == [kind |-> "pulse", ts |-> sec]

RECURSIVE Without(_, _)
Without(dir, name) ==
  IF dir = <<>> THEN <<>>
  ELSE (IF Head(dir).name = name THEN <<>> ELSE <<Head(dir)>>) \o Without(Tail(dir), name)

Exists(dir, name) == \E i \in 1..Len(dir) : dir[i].name = name
FileLines(dir, name) == (CHOOSE f \in Range(dir) : f.name = name).lines

\* writing a file makes it the newest of the directory
WriteFile(dir, name, lines) == Without(dir, name) \o <<[name |-> name, lines |-> lines]>>

\* sorted(glob("*.csv"), key=mtime, reverse=True)[0]
NewestCsv(dir) == dir[Len(dir)]

\* the lines of the session log (none while the file is absent)
LogLines(dir) == IF Exists(dir, SessionCsv) THEN FileLines(dir, SessionCsv) ELSE <<>>
\* its data rows
LogRows(dir) == DataRows(LogLines(dir))

\* OpenFacePulse._append_session_row: the row written for a summary
\* (csv.DictWriter leaves the cell of a missing key empty)
SessionRow(summary, csvName, sid, clock) ==
  [k \in HeaderKeys |->
     CASE k \in DOMAIN summary -> Cell(summary[k])
       [] k = "ts" -> Cell(clock \div 1000)
       [] k = "session_id" -> Cell(sid)
       [] k = "dur_s" -> Cell(0)
       [] k = "frames" -> Cell(0)
       [] k = "src_csv" -> Cell(csvName)
       [] OTHER -> Empty]

\* OpenFacePulse._append_session_row: open(..., "a"); the header line on the
\* first write only, then one row
\* (append_session_row_Truncating: the file opened with "w" instead of "a")
append_session_row_Truncating(dir, summary, csvName, sid, clock) ==
  WriteFile(dir, SessionCsv, <<header, SessionRow(summary, csvName, sid, clock)>>)
append_session_row(dir, summary, csvName, sid, clock) ==
  LET first == ~Exists(dir, SessionCsv)
  IN  WriteFile(dir, SessionCsv,
                LogLines(dir) \o (IF first THEN <<header>> ELSE <<>>)
                              \o <<SessionRow(summary, csvName, sid, clock)>>)

(***************************************************************************)
(* camera_schedule.next_start_after                                        *)
(***************************************************************************)
\* next_start_after_FromNow: the wake time counted from the clock ("now + gap")
next_start_after_FromNow(anch, gap, clock) == clock + gap
\* next_start_after_PushLate: the lead is looked at in the else branch only
next_start_after_PushLate(anch, gap, clock) ==
  IF clock < anch THEN anch
  ELSE LET start == anch + (((clock - anch) \div gap) + 1) * gap
       IN  IF start < clock + MIN_LEAD THEN start + gap ELSE start
\* next_start_after_Floor: the "+ 1" of line 105 and the lead left out, so
\* that the slot at or before the clock is returned
next_start_after_Floor(anch, gap, clock) ==
  IF clock < anch THEN anch ELSE anch + ((clock - anch) \div gap) * gap
\* next_start_after_NoLead: lines 107-108 left out
next_start_after_NoLead(anch, gap, clock) ==
  IF clock < anch THEN anch ELSE anch + (((clock - anch) \div gap) + 1) * gap
\* next_start_after_LeadShift: a start that comes too early is moved to
\* now + MIN_LEAD instead of one gap further
next_start_after_LeadShift(anch, gap, clock) ==
  LET start == IF clock < anch
               THEN anch
               ELSE anch + (((clock - anch) \div gap) + 1) * gap
  IN  IF start < clock + MIN_LEAD THEN clock + MIN_LEAD ELSE start
next_start_after(anch, gap, clock) ==
  LET start == IF clock < anch
               THEN anch
               ELSE anch + (((clock - anch) \div gap) + 1) * gap
  IN  IF start < clock + MIN_LEAD THEN start + gap ELSE start

\* the keys cv2.waitKey can report: none (255 after & 0xFF), q, ESC, another
KEY_NONE == 255
KEY_Q == 113
KEY_ESC == 27
KEY_OTHER == 97
Keys == {KEY_NONE, KEY_Q, KEY_ESC, KEY_OTHER}
AbortKeys == {KEY_Q, KEY_ESC}

(***************************************************************************)
(* OpenFacePulse.write (lines 57-61) on a recorder whose _writer is w      *)
(* ("none": None; "unopened": a VideoWriter that did not open; "open") and *)
(* whose _frames is n: whether it raises, _frames afterwards, and the      *)
(* frames that reached the video file.                                     *)
(***************************************************************************)
\* write_Unchecked: the check of line 58 left out
write_Unchecked(w, n) ==
  [raised |-> FALSE, frames |-> n + 1, written |-> IF w = "open" THEN 1 ELSE 0]
write(w, n) ==
  IF w = "none"
  THEN [raised |-> TRUE, frames |-> n, written |-> 0]
  ELSE [raised |-> FALSE, frames |-> n + 1, written |-> IF w = "open" THEN 1 ELSE 0]

(***************************************************************************)
(* State.                                                                  *)
(***************************************************************************)
VARIABLES
  now,          \* the clock, ms
  mpc,          \* where main() is
  rpc,          \* where run_preview() is ("idle" outside of it)
  pulseNo,      \* number of run_preview calls so far
  first_start,  \* main: t0 + FIRST_OFFSET
  anchor,       \* main: first_start + RECURRING_GAP (NoTime until set)
  abs_start,    \* main: wake time of the current recurring cycle
  capOpen,      \* a camera handle is held open
  releases,     \* cap.release() calls of this run_preview
  writer,       \* OpenFacePulse._writer: "none", "unopened", "open"
  frames,       \* OpenFacePulse._frames
  t_start,      \* OpenFacePulse._t_start
  t_end_rec,    \* OpenFacePulse._t_end
  tmpdir,       \* OpenFacePulse._tmpdir: "none", "live", "cleaned"
  videoTs,      \* the second stamped into the video's (and table's) name
  t_end,        \* run_preview: deadline of the capture loop
  pending,      \* how the try block was left: "none", "return_false",
                \* "exception", "interrupt"
  result,       \* how run_preview ended: "none", "True", "False",
                \* "Exception", "KeyboardInterrupt"
  outDir,       \* the *.csv files of OUT_DIR, oldest modification first
  errReported,  \* run_preview printed "[ERR] OpenFace analysis failed"
  obs,          \* observations of the current pulse and of the run
  call          \* a function called on its own: its arguments and its result
                \* (NoCall in the runs of the program)

prog_vars == <<now, mpc, rpc, pulseNo, first_start, anchor, abs_start, capOpen,
               releases, writer, frames, t_start, t_end_rec, tmpdir, videoTs,
               t_end, pending, result, outDir, errReported, obs>>
vars == <<prog_vars, call>>

main_vars == <<mpc, first_start, anchor, abs_start>>
pulse_vars == <<writer, frames, t_start, t_end_rec, tmpdir, videoTs>>

(***************************************************************************)
(* obs records what happened, for the properties; no action reads it.      *)
(*   t_enter      the clock when run_preview was entered                   *)
(*   dirAtEntry   OUT_DIR when run_preview was entered                     *)
(*   camFailed    open_cam returned None in this pulse                     *)
(*   camOpened    open_cam returned a handle in this pulse                 *)
(*   started      OpenFacePulse.start succeeded in this pulse              *)
(*   startFailed  OpenFacePulse.start raised in this pulse                 *)
(*   abortKey     q/ESC was read in this pulse                             *)
(*   loopExc      the capture loop raised in this pulse                    *)
(*   finishCalls  calls of pulse.finish() in this pulse                    *)
(*   finishEnd    how finish() ended: "none", "returned", "tool_failed",   *)
(*                "no_csv", "format_error", "interrupted"                  *)
(*   toolRuns     runs of the extraction tool in this pulse                *)
(*   toolExit     its exit status (-1: not run)                            *)
(*   toolWrote    it wrote a table                                         *)
(*   toolRows     rows of the table it wrote                               *)
(*   usedCsv      the file finish() summarized (NoFile: none)              *)
(*   tmpAtEnd     _tmpdir when finish() ended                              *)
(*   dirBefore    OUT_DIR when finish() was entered                        *)
(*   clsArg       <<s>> when finish() called _classify_expression(s)       *)
(*   logArg       <<s>> when finish() called _append_session_row(s, ...)   *)
(*   lastRead     the clock when the last cap.read() of the loop was       *)
(*                started (-1: none yet)                                   *)
(*   keyChecks    cv2.waitKey calls of the capture loop (while           *)
(*                run_preview is active)                                   *)
(*   keepChecks   times main has examined run_preview's result (lines 128, *)
(*                151)                                                     *)
(*   prevStart    the wake time of the cycle before the current one (-1:   *)
(*                none)                                                    *)
(*   schedAt      the clock when the current wake time was computed        *)
(*   interrupted  a KeyboardInterrupt was delivered in this run            *)
(*   intrAt       where: "none", "wait_first", "first_pulse", "wait",      *)
(*                "pulse"                                                  *)
(*   abortedAt    the pulse in which the user aborted (0: none)            *)
(*   crashExc     the exception main() died of ("none" if it did not)      *)
(***************************************************************************)
NoFile == [kind |-> "none", ts |-> 0]
PulseObs0 ==
  [t_enter |-> 0, dirAtEntry |-> <<>>, camFailed |-> FALSE, camOpened |-> FALSE,
   started |-> FALSE, startFailed |-> FALSE, abortKey |-> FALSE,
   loopExc |-> FALSE, finishCalls |-> 0, finishEnd |-> "none", toolRuns |-> 0,
   toolExit |-> -1, toolWrote |-> FALSE, toolRows |-> 0, usedCsv |-> NoFile,
   tmpAtEnd |-> "none", dirBefore |-> <<>>, clsArg |-> <<>>, logArg |-> <<>>,
   lastRead |-> -1, keyChecks |-> 0]
RunObs0 ==
  [interrupted |-> FALSE, intrAt |-> "none", abortedAt |-> 0, crashExc |-> "none",
   keepChecks |-> 0, prevStart |-> -1, schedAt |-> -1]

Merge(f, g) == [k \in (DOMAIN f) \cup (DOMAIN g) |-> IF k \in DOMAIN g THEN g[k] ELSE f[k]]

\* what an earlier run may have left in OUT_DIR (its session id is -1; the
\* pulses of this run are numbered from 1)
PriorSummary ==
  LET s0 == summarize_csv(FaceTable, 0, 6000)
      c == classify_expression(s0)
  IN  Merge(s0, [expr |-> c[1], expr_score |-> c[2]])
PriorDir ==
  append_session_row(WriteFile(<<>>, TableName(0), FaceTable),
                     PriorSummary, TableName(0), -1, 0)
InitialDirs == {<<>>, PriorDir}

NoCall == [fn |-> "none"]

\* the program before main() has done anything
InitProgram ==
  /\ now = 0
  /\ mpc = "wait_first"
  /\ rpc = "idle"
  /\ pulseNo = 0
  /\ first_start = FIRST_OFFSET
  /\ anchor = NoTime
  /\ abs_start = NoTime
  /\ capOpen = FALSE
  /\ releases = 0
  /\ writer = "none"
  /\ frames = 0
  /\ t_start = NoTime
  /\ t_end_rec = NoTime
  /\ tmpdir = "none"
  /\ videoTs = 0
  /\ t_end = NoTime
  /\ pending = "none"
  /\ result = "none"
  /\ outDir \in InitialDirs
  /\ errReported = FALSE
  /\ obs = Merge(PulseObs0, RunObs0)

Init ==
  /\ InitProgram
  /\ call = NoCall

(***************************************************************************)
(* main(): the scheduler.                                                  *)
(***************************************************************************)
\* the call run_preview(PULSE_DURATION): a fresh activation
EnterPreview ==
  /\ rpc' = "open_cam"
  /\ pulseNo' = pulseNo + 1
  /\ releases' = 0
  /\ pending' = "none"
  /\ result' = "none"
  /\ t_end' = NoTime
  /\ errReported' = FALSE
  /\ obs' = Merge(obs, [PulseObs0 EXCEPT !.t_enter = now, !.dirAtEntry = outDir])
  /\ UNCHANGED <<now, capOpen, pulse_vars, outDir>>

\* lines 119-123: poll until first_start, sleeping at most 0.1 s at a time
WaitFirstSleep ==
  /\ UNCHANGED call
  /\ mpc = "wait_first"
  /\ now < first_start
  /\ now' = now + Min(FIRST_POLL, first_start - now)
  /\ UNCHANGED <<main_vars, rpc, pulseNo, capOpen, releases, pulse_vars, t_end,
                 pending, result, outDir, errReported, obs>>

\* lines 121-126: the first pulse
FirstPulseBegin ==
  /\ UNCHANGED call
  /\ mpc = "wait_first"
  /\ now >= first_start
  /\ pulseNo < MaxPulses
  /\ mpc' = "run_first"
  /\ UNCHANGED <<first_start, anchor, abs_start>>
  /\ EnterPreview

\* run_preview's activation is gone once it has returned or raised
LeavePreview ==
  /\ rpc' = "idle"
  /\ writer' = "none"
  /\ frames' = 0
  /\ t_start' = NoTime
  /\ t_end_rec' = NoTime
  /\ tmpdir' = "none"
  /\ videoTs' = 0
  /\ t_end' = NoTime
  /\ pending' = "none"
  /\ UNCHANGED <<now, pulseNo, capOpen, releases, result, outDir, errReported>>

\* lines 126-133: the first pulse is outside the try of main
AfterFirstPulse ==
  /\ UNCHANGED call
  /\ mpc = "run_first"
  /\ rpc = "done"
  /\ LeavePreview
  /\ UNCHANGED <<first_start, abs_start>>
  /\ CASE result = "True" ->
            /\ mpc' = "schedule"
            /\ anchor' = first_start + RECURRING_GAP
            /\ obs' = [obs EXCEPT !.keyChecks = 0, !.keepChecks = @ + 1]
       [] result = "False" ->
            /\ mpc' = "stopped"
            /\ anchor' = anchor
            /\ obs' = [obs EXCEPT !.keyChecks = 0, !.keepChecks = @ + 1]
       [] OTHER ->
            /\ mpc' = "crashed"
            /\ anchor' = anchor
            /\ obs' = [obs EXCEPT !.keyChecks = 0, !.crashExc = result]

\* lines 136-137
ScheduleNext ==
  /\ UNCHANGED call
  /\ mpc = "schedule"
  /\ abs_start' = next_start_after(anchor, RECURRING_GAP, now)
  /\ mpc' = "wait_recurring"
  /\ obs' = [obs EXCEPT !.prevStart = abs_start, !.schedAt = now]
  /\ UNCHANGED <<now, first_start, anchor, rpc, pulseNo, capOpen, releases,
                 pulse_vars, t_end, pending, result, outDir, errReported>>

\* lines 140-146: the countdown, one second at a time (the model follows
\* MaxPulses pulses: after the last of them the next wake time is still
\* computed, and the wait for it is not followed)
CountdownSleep ==
  /\ UNCHANGED call
  /\ mpc = "wait_recurring"
  /\ pulseNo < MaxPulses
  /\ abs_start - now > 0
  /\ now' = now + COUNTDOWN_POLL
  /\ UNCHANGED <<main_vars, rpc, pulseNo, capOpen, releases, pulse_vars, t_end,
                 pending, result, outDir, errReported, obs>>

\* (RecurringPulseBegin_Early: the countdown left once less than one more
\* sleep remains)
RecurringPulseBegin_Early ==
  /\ UNCHANGED call
  /\ mpc = "wait_recurring"
  /\ abs_start - now <= COUNTDOWN_POLL
  /\ pulseNo < MaxPulses
  /\ mpc' = "run_recurring"
  /\ UNCHANGED <<first_start, anchor, abs_start>>
  /\ EnterPreview
\* lines 143-149
RecurringPulseBegin ==
  /\ UNCHANGED call
  /\ mpc = "wait_recurring"
  /\ abs_start - now <= 0
  /\ pulseNo < MaxPulses
  /\ mpc' = "run_recurring"
  /\ UNCHANGED <<first_start, anchor, abs_start>>
  /\ EnterPreview

\* lines 149-156: inside try ... except KeyboardInterrupt
AfterRecurringPulse ==
  /\ UNCHANGED call
  /\ mpc = "run_recurring"
  /\ rpc = "done"
  /\ LeavePreview
  /\ UNCHANGED <<first_start, anchor, abs_start>>
  /\ CASE result = "True" ->
            /\ mpc' = "schedule"
            /\ obs' = [obs EXCEPT !.keyChecks = 0, !.keepChecks = @ + 1]
       [] result = "False" ->
            /\ mpc' = "stopped"
            /\ obs' = [obs EXCEPT !.keyChecks = 0, !.keepChecks = @ + 1]
       [] result = "KeyboardInterrupt" ->
            /\ mpc' = "stopped"
            /\ obs' = [obs EXCEPT !.keyChecks = 0]
       [] OTHER ->
            /\ mpc' = "crashed"
            /\ obs' = [obs EXCEPT !.keyChecks = 0, !.crashExc = result]

(***************************************************************************)
(* OpenFacePulse.finish (lines 65-110) as a function of the directory, the *)
(* clock and what the extraction tool does: it runs for e ms, exits with   *)
(* status rc and, when wrote, leaves the table `table` named after the     *)
(* video.  The result says how finish ended, the directory and _tmpdir     *)
(* afterwards, and the summary and file returned.                          *)
(***************************************************************************)
\* an f-string formatting summary.get(k) with a float format raises
\* TypeError when the key is missing (None).  FormatRaises_Never: the
\* prints give summary.get a numeric default, so that they never raise
FormatRaises_Never(summary, keys) == FALSE
FormatRaises(summary, keys) == \E k \in keys : k \notin DOMAIN summary

\* lines 102-107
DebugPrintKeys == {"dur_s", "AU12_r", "AU04_r", "AU26_r"}
\* camera_schedule.py lines 82-88
ReportPrintKeys == {"expr_score", "AU12_r", "AU04_r", "AU26_r", "valence_proxy"}

\* line 84: proc.returncode != 0 (ToolFailed_Unchecked: the exit status is
\* not looked at)
ToolFailed_Unchecked(rc) == FALSE
ToolFailed(rc) == rc /= 0

finish(dir, clock, tStart, sid, vts, e, rc, wrote, table) ==
  LET dir1 == IF wrote THEN WriteFile(dir, TableName(vts), table) ELSE dir
      failed(how) == [end |-> how, dir |-> dir1, tmp |-> "live",
                      summary |-> [k \in {} |-> 0], csv |-> NoFile,
                      cls |-> <<>>, log |-> <<>>]
  IN  IF ToolFailed(rc) THEN failed("tool_failed")
      ELSE IF dir1 = <<>> THEN failed("no_csv")
      ELSE LET csv == NewestCsv(dir1)
               s0 == summarize_csv(csv.lines, tStart, clock)
               c == classify_expression(s0)
               summary == Merge(s0, [expr |-> c[1], expr_score |-> c[2]])
           IN  IF DEBUG /\ FormatRaises(summary, DebugPrintKeys)
               THEN [failed("format_error") EXCEPT !.csv = csv.name, !.cls = <<s0>>]
               ELSE [end |-> "returned",
                     dir |-> append_session_row(dir1, summary, csv.name, sid, clock + e),
                     tmp |-> "cleaned",
                     summary |-> summary,
                     csv |-> csv.name,
                     cls |-> <<s0>>,
                     log |-> <<summary>>]

\* what the extraction tool may do: fail; exit 0 without a table; exit 0
\* and write one of ToolTables
ToolOutcomes ==
  {[rc |-> 1, wrote |-> FALSE, table |-> EmptyTable],
   [rc |-> 0, wrote |-> FALSE, table |-> EmptyTable]}
  \cup {[rc |-> 0, wrote |-> TRUE, table |-> t] : t \in ToolTables}

(***************************************************************************)
(* run_preview (camera_schedule.py lines 35-94).                           *)
(***************************************************************************)
\* open_cam returns None: lines 26-28, 41
OpenCamFail ==
  /\ UNCHANGED call
  /\ rpc = "open_cam"
  /\ rpc' = "skip_sleep"
  /\ obs' = [obs EXCEPT !.camFailed = TRUE]
  /\ UNCHANGED <<now, main_vars, pulseNo, capOpen, releases, pulse_vars, t_end,
                 pending, result, outDir, errReported>>

\* open_cam succeeds: lines 21-32, eight warm-up reads
OpenCamOk ==
  /\ UNCHANGED call
  /\ rpc = "open_cam"
  /\ \E d \in WarmupLatencies : now' = now + WARMUP_READS * (d + WARMUP_SLEEP)
  /\ capOpen' = TRUE
  /\ rpc' = "start"
  /\ obs' = [obs EXCEPT !.camOpened = TRUE]
  /\ UNCHANGED <<main_vars, pulseNo, releases, pulse_vars, t_end, pending,
                 result, outDir, errReported>>

\* lines 42-44: the pulse is skipped (SkipSleep_NoSleep: without waiting
\* out the pulse)
SkipSleep_NoSleep ==
  /\ UNCHANGED call
  /\ rpc = "skip_sleep"
  /\ result' = "True"
  /\ rpc' = "done"
  /\ UNCHANGED <<now, main_vars, pulseNo, capOpen, releases, pulse_vars, t_end,
                 pending, outDir, errReported, obs>>
SkipSleep ==
  /\ UNCHANGED call
  /\ rpc = "skip_sleep"
  /\ now' = now + PULSE_DURATION
  /\ result' = "True"
  /\ rpc' = "done"
  /\ UNCHANGED <<main_vars, pulseNo, capOpen, releases, pulse_vars, t_end,
                 pending, outDir, errReported, obs>>

\* lines 47-51 with OpenFacePulse.__init__ and start: the writer opens
StartOk ==
  /\ UNCHANGED call
  /\ rpc = "start"
  /\ tmpdir' = "live"
  /\ videoTs' = now \div 1000
  /\ frames' = 0
  /\ t_end_rec' = NoTime
  /\ writer' = "open"
  /\ t_start' = now
  /\ t_end' = now + PULSE_DURATION
  /\ rpc' = "loop"
  /\ obs' = [obs EXCEPT !.started = TRUE]
  /\ UNCHANGED <<now, main_vars, pulseNo, capOpen, releases, pending, result,
                 outDir, errReported>>

\* lines 47-49 with start lines 48-51: the writer does not open and start
\* raises RuntimeError; the call is outside the try of run_preview
StartFail ==
  /\ UNCHANGED call
  /\ rpc = "start"
  /\ tmpdir' = "live"
  /\ videoTs' = now \div 1000
  /\ frames' = 0
  /\ t_end_rec' = NoTime
  /\ writer' = "unopened"
  /\ t_start' = NoTime
  /\ result' = "Exception"
  /\ rpc' = "done"
  /\ obs' = [obs EXCEPT !.startFailed = TRUE]
  /\ UNCHANGED <<now, main_vars, pulseNo, capOpen, releases, t_end, pending,
                 outDir, errReported>>

\* lines 54-55: the deadline has passed
LoopDeadline ==
  /\ UNCHANGED call
  /\ rpc = "loop"
  /\ now >= t_end
  /\ pending' = "none"
  /\ rpc' = "release"
  /\ UNCHANGED <<now, main_vars, pulseNo, capOpen, releases, pulse_vars, t_end,
                 result, outDir, errReported, obs>>

\* (ReadFail_KeyExamined: the key is read on an iteration whose read failed,
\* too, and q/ESC ends the loop there)
ReadFail_KeyExamined ==
  /\ UNCHANGED call
  /\ rpc = "loop"
  /\ now < t_end
  /\ \E d \in FailLatencies : now' = now + d + READ_FAIL_SLEEP
  /\ \E k \in Keys :
       IF k \in AbortKeys
       THEN /\ pending' = "return_false"
            /\ rpc' = "release"
            /\ obs' = [obs EXCEPT !.abortKey = TRUE, !.abortedAt = pulseNo,
                                  !.lastRead = now, !.keyChecks = @ + 1]
       ELSE /\ pending' = pending
            /\ rpc' = rpc
            /\ obs' = [obs EXCEPT !.lastRead = now, !.keyChecks = @ + 1]
  /\ UNCHANGED <<main_vars, pulseNo, capOpen, releases, pulse_vars, t_end,
                 result, outDir, errReported>>
\* (ReadFail_AtDeadline: the deadline compared with > instead of >=, so that
\* a read is still started when the clock is exactly at the deadline)
ReadFail_AtDeadline ==
  /\ UNCHANGED call
  /\ rpc = "loop"
  /\ now <= t_end
  /\ \E d \in FailLatencies : now' = now + d + READ_FAIL_SLEEP
  /\ obs' = [obs EXCEPT !.lastRead = now]
  /\ UNCHANGED <<main_vars, rpc, pulseNo, capOpen, releases, pulse_vars, t_end,
                 pending, result, outDir, errReported>>
\* lines 56-59: the read fails
ReadFail ==
  /\ UNCHANGED call
  /\ rpc = "loop"
  /\ now < t_end
  /\ \E d \in FailLatencies : now' = now + d + READ_FAIL_SLEEP
  /\ obs' = [obs EXCEPT !.lastRead = now]
  /\ UNCHANGED <<main_vars, rpc, pulseNo, capOpen, releases, pulse_vars, t_end,
                 pending, result, outDir, errReported>>

\* lines 56-73 with write lines 57-61: a frame is read, written and shown,
\* and the key k is read
ReadFrame ==
  /\ UNCHANGED call
  /\ rpc = "loop"
  /\ now < t_end
  /\ \E d \in FrameLatencies : now' = now + d + WAITKEY_DELAY
  /\ \E k \in Keys :
       IF write(writer, frames).raised
       THEN /\ pending' = "exception"
            /\ rpc' = "release"
            /\ frames' = write(writer, frames).frames
            /\ obs' = [obs EXCEPT !.loopExc = TRUE, !.lastRead = now]
       ELSE /\ frames' = write(writer, frames).frames
            /\ IF k \in AbortKeys
               THEN /\ pending' = "return_false"
                    /\ rpc' = "release"
                    /\ obs' = [obs EXCEPT !.abortKey = TRUE, !.abortedAt = pulseNo,
                                          !.lastRead = now, !.keyChecks = @ + 1]
               ELSE /\ pending' = pending
                    /\ rpc' = rpc
                    /\ obs' = [obs EXCEPT !.lastRead = now, !.keyChecks = @ + 1]
  /\ UNCHANGED <<main_vars, pulseNo, capOpen, releases, writer, t_start,
                 t_end_rec, tmpdir, videoTs, t_end, result, outDir, errReported>>

\* (LoopException_Escapes: the loop not wrapped in try/finally, so that an
\* exception leaves run_preview at once)
LoopException_Escapes ==
  /\ UNCHANGED call
  /\ rpc = "loop"
  /\ now < t_end
  /\ result' = "Exception"
  /\ rpc' = "done"
  /\ obs' = [obs EXCEPT !.loopExc = TRUE]
  /\ UNCHANGED <<now, main_vars, pulseNo, capOpen, releases, pulse_vars, t_end,
                 pending, outDir, errReported>>
\* a call inside the loop (cap.read, cv2.imshow) raises
LoopException ==
  /\ UNCHANGED call
  /\ rpc = "loop"
  /\ now < t_end
  /\ pending' = "exception"
  /\ rpc' = "release"
  /\ obs' = [obs EXCEPT !.loopExc = TRUE]
  /\ UNCHANGED <<now, main_vars, pulseNo, capOpen, releases, pulse_vars, t_end,
                 result, outDir, errReported>>

\* (Release_Leak: the finally block goes on without cap.release())
Release_Leak ==
  /\ UNCHANGED call
  /\ rpc = "release"
  /\ rpc' = "finish"
  /\ UNCHANGED <<now, main_vars, pulseNo, capOpen, releases, pulse_vars, t_end,
                 pending, result, outDir, errReported, obs>>
\* lines 74-76: the finally block releases the camera
Release ==
  /\ UNCHANGED call
  /\ rpc = "release"
  /\ capOpen' = FALSE
  /\ releases' = releases + 1
  /\ rpc' = "finish"
  /\ UNCHANGED <<now, main_vars, pulseNo, pulse_vars, t_end, pending, result,
                 outDir, errReported, obs>>

\* Finish_SkipEmpty: finish() returns early, without running the tool, when
\* no frame was written
Finish_SkipEmpty ==
  /\ UNCHANGED call
  /\ rpc = "finish"
  /\ IF frames = 0
     THEN /\ writer' = "none"
          /\ t_end_rec' = now
          /\ rpc' = "cooldown"
          /\ errReported' = TRUE
          /\ obs' = [obs EXCEPT !.finishCalls = @ + 1, !.finishEnd = "no_csv",
                                !.tmpAtEnd = tmpdir, !.dirBefore = outDir]
          /\ UNCHANGED <<now, main_vars, pulseNo, capOpen, releases, frames,
                         t_start, tmpdir, videoTs, t_end, pending, result, outDir>>
     ELSE
         /\ rpc = "finish"
         /\ \E e \in ExtractTimes, tool \in ToolOutcomes :
              LET rc == tool.rc
                  wrote == tool.wrote
                  table == tool.table
                  r == finish(outDir, now, t_start, pulseNo, videoTs, e, rc, wrote, table)
                  raised == r.end /= "returned" \/ FormatRaises(r.summary, ReportPrintKeys)
              IN  /\ now' = now + e
                  /\ outDir' = r.dir
                  /\ tmpdir' = r.tmp
                  /\ errReported' = raised
                  /\ obs' = [obs EXCEPT !.finishCalls = @ + 1, !.finishEnd = r.end,
                                        !.toolRuns = @ + 1, !.toolExit = rc,
                                        !.toolWrote = wrote,
                                        !.toolRows = IF wrote THEN Len(DataRows(table)) ELSE 0,
                                        !.usedCsv = r.csv, !.tmpAtEnd = r.tmp,
                                        !.clsArg = r.cls, !.logArg = r.log,
                                        !.dirBefore = outDir]
         /\ writer' = "none"
         /\ t_end_rec' = now
         /\ rpc' = "cooldown"
         /\ UNCHANGED <<main_vars, pulseNo, capOpen, releases, frames, t_start, videoTs,
                        t_end, pending, result>>

\* lines 78-91: pulse.finish() and the report, inside try/except Exception
Finish ==
  /\ UNCHANGED call
  /\ rpc = "finish"
  /\ \E e \in ExtractTimes, tool \in ToolOutcomes :
       LET rc == tool.rc
           wrote == tool.wrote
           table == tool.table
           r == finish(outDir, now, t_start, pulseNo, videoTs, e, rc, wrote, table)
           raised == r.end /= "returned" \/ FormatRaises(r.summary, ReportPrintKeys)
       IN  /\ now' = now + e
           /\ outDir' = r.dir
           /\ tmpdir' = r.tmp
           /\ errReported' = raised
           /\ obs' = [obs EXCEPT !.finishCalls = @ + 1, !.finishEnd = r.end,
                                 !.toolRuns = @ + 1, !.toolExit = rc,
                                 !.toolWrote = wrote,
                                 !.toolRows = IF wrote THEN Len(DataRows(table)) ELSE 0,
                                 !.usedCsv = r.csv, !.tmpAtEnd = r.tmp,
                                        !.clsArg = r.cls, !.logArg = r.log,
                                 !.dirBefore = outDir]
  /\ writer' = "none"
  /\ t_end_rec' = now
  /\ rpc' = "cooldown"
  /\ UNCHANGED <<main_vars, pulseNo, capOpen, releases, frames, t_start, videoTs,
                 t_end, pending, result>>

\* how run_preview ends once the finally block is through: line 73
\* (return False), line 94 (return True), or the exception goes on.
\* PreviewResult_AlwaysTrue: the abort is lost (as a return True placed in
\* the finally block would do)
PreviewResult_AlwaysTrue(p) ==
  CASE p = "none" -> "True"
    [] p = "return_false" -> "True"
    [] p = "exception" -> "Exception"
    [] OTHER -> "KeyboardInterrupt"
PreviewResult(p) ==
  CASE p = "none" -> "True"
    [] p = "return_false" -> "False"
    [] p = "exception" -> "Exception"
    [] OTHER -> "KeyboardInterrupt"

\* (Cooldown_FailStops: a finalize step that failed makes run_preview
\* return False)
Cooldown_FailStops ==
  /\ UNCHANGED call
  /\ rpc = "cooldown"
  /\ now' = now + REOPEN_COOLDOWN
  /\ result' = IF errReported THEN "False" ELSE PreviewResult(pending)
  /\ rpc' = "done"
  /\ UNCHANGED <<main_vars, pulseNo, capOpen, releases, pulse_vars, t_end,
                 pending, outDir, errReported, obs>>
\* lines 92-94: the cooldown, then the try block's way out takes effect
Cooldown ==
  /\ UNCHANGED call
  /\ rpc = "cooldown"
  /\ now' = now + REOPEN_COOLDOWN
  /\ result' = PreviewResult(pending)
  /\ rpc' = "done"
  /\ UNCHANGED <<main_vars, pulseNo, capOpen, releases, pulse_vars, t_end,
                 pending, outDir, errReported, obs>>

(***************************************************************************)
(* Ctrl+C.  A KeyboardInterrupt is delivered while the program blocks: in  *)
(* a sleep, a camera read, the key wait or the extraction subprocess.      *)
(***************************************************************************)
Interrupted(where) == [obs EXCEPT !.interrupted = TRUE, !.intrAt = where]
PulsePhase == IF mpc = "run_first" THEN "first_pulse" ELSE "pulse"

\* lines 119-123 are outside any try: main dies
InterruptWaitFirst ==
  /\ UNCHANGED call
  /\ mpc = "wait_first"
  /\ mpc' = "crashed"
  /\ obs' = [Interrupted("wait_first") EXCEPT !.crashExc = "KeyboardInterrupt"]
  /\ UNCHANGED <<now, first_start, anchor, abs_start, rpc, pulseNo, capOpen,
                 releases, pulse_vars, t_end, pending, result, outDir, errReported>>

\* lines 134-146 and 155-156: caught by main
InterruptWait ==
  /\ UNCHANGED call
  /\ mpc \in {"schedule", "wait_recurring"}
  /\ mpc' = "stopped"
  /\ obs' = Interrupted("wait")
  /\ UNCHANGED <<now, first_start, anchor, abs_start, rpc, pulseNo, capOpen,
                 releases, pulse_vars, t_end, pending, result, outDir, errReported>>

\* lines 30-31: in the warm-up of open_cam, the device being open
InterruptOpenCam ==
  /\ UNCHANGED call
  /\ rpc = "open_cam"
  /\ capOpen' = TRUE
  /\ result' = "KeyboardInterrupt"
  /\ rpc' = "done"
  /\ obs' = Interrupted(PulsePhase)
  /\ UNCHANGED <<now, main_vars, pulseNo, releases, pulse_vars, t_end, pending,
                 outDir, errReported>>

\* line 43: in the sleep of a skipped pulse
InterruptSkipSleep ==
  /\ UNCHANGED call
  /\ rpc = "skip_sleep"
  /\ result' = "KeyboardInterrupt"
  /\ rpc' = "done"
  /\ obs' = Interrupted(PulsePhase)
  /\ UNCHANGED <<now, main_vars, pulseNo, capOpen, releases, pulse_vars, t_end,
                 pending, outDir, errReported>>

\* lines 53-73: in the capture loop, inside the try
InterruptLoop ==
  /\ UNCHANGED call
  /\ rpc = "loop"
  /\ pending' = "interrupt"
  /\ rpc' = "release"
  /\ obs' = Interrupted(PulsePhase)
  /\ UNCHANGED <<now, main_vars, pulseNo, capOpen, releases, pulse_vars, t_end,
                 result, outDir, errReported>>

\* line 83 of finish: in subprocess.run; except Exception (line 90) does not
\* catch a KeyboardInterrupt, which leaves the finally block at once
InterruptFinish ==
  /\ UNCHANGED call
  /\ rpc = "finish"
  /\ writer' = "none"
  /\ t_end_rec' = now
  /\ result' = "KeyboardInterrupt"
  /\ rpc' = "done"
  /\ obs' = [Interrupted(PulsePhase) EXCEPT !.finishCalls = @ + 1,
                                            !.finishEnd = "interrupted",
                                            !.toolRuns = @ + 1,
                                            !.tmpAtEnd = tmpdir,
                                            !.dirBefore = outDir]
  /\ UNCHANGED <<now, main_vars, pulseNo, capOpen, releases, frames, t_start,
                 tmpdir, videoTs, t_end, pending, outDir, errReported>>

\* line 92: in the cooldown sleep
InterruptCooldown ==
  /\ UNCHANGED call
  /\ rpc = "cooldown"
  /\ result' = "KeyboardInterrupt"
  /\ rpc' = "done"
  /\ obs' = Interrupted(PulsePhase)
  /\ UNCHANGED <<now, main_vars, pulseNo, capOpen, releases, pulse_vars, t_end,
                 pending, outDir, errReported>>

Next ==
  \/ WaitFirstSleep
  \/ FirstPulseBegin
  \/ AfterFirstPulse
  \/ ScheduleNext
  \/ CountdownSleep
  \/ RecurringPulseBegin
  \/ AfterRecurringPulse
  \/ OpenCamFail
  \/ OpenCamOk
  \/ SkipSleep
  \/ StartOk
  \/ StartFail
  \/ LoopDeadline
  \/ ReadFail
  \/ ReadFrame
  \/ LoopException
  \/ Release
  \/ Finish
  \/ Cooldown
  \/ InterruptWaitFirst
  \/ InterruptWait
  \/ InterruptOpenCam
  \/ InterruptSkipSleep
  \/ InterruptLoop
  \/ InterruptFinish
  \/ InterruptCooldown

Spec == Init /\ [][Next]_vars

TypeOK ==
  /\ mpc \in {"wait_first", "run_first", "schedule", "wait_recurring",
              "run_recurring", "stopped", "crashed"}
  /\ rpc \in {"idle", "open_cam", "skip_sleep", "start", "loop", "release",
              "finish", "cooldown", "done"}
  /\ pulseNo \in 0..MaxPulses
  /\ capOpen \in BOOLEAN
  /\ writer \in {"none", "unopened", "open"}
  /\ tmpdir \in {"none", "live", "cleaned"}
  /\ pending \in {"none", "return_false", "exception", "interrupt"}
  /\ result \in {"none", "True", "False", "Exception", "KeyboardInterrupt"}
  /\ errReported \in BOOLEAN

(***************************************************************************)
(* Properties.                                                             *)
(***************************************************************************)
\* the rows the session log holds for the pulse with session id sid
PulseRows(dir, sid) ==
  Cardinality({i \in 1..Len(LogRows(dir)) : LogRows(dir)[i]["session_id"] = Cell(sid)})

\* the session log is as it was when finish() was entered
LogUntouched == LogLines(outDir) = LogLines(obs.dirBefore)

\* the pulse was ended by its deadline: no abort key, no exception in the
\* loop, no Ctrl+C
EndedByDeadline == ~obs.abortKey /\ ~obs.loopExc /\ ~obs.interrupted

\* run_preview has reported "continue" and main is on its way to the next pulse
ScheduleGoesOn ==
  /\ rpc = "done" => result = "True"
  /\ rpc = "idle" => mpc \in {"schedule", "wait_recurring"}

FinishEnded == obs.finishEnd \in {"returned", "tool_failed", "no_csv", "format_error"}

\* C1: once run_preview has ended a pulse whose camera open succeeded, the
\* handle has been released exactly once, whichever way the pulse ended
\* (deadline, abort key, exception in the loop, failure of start()).
C1_ReleasedOnceOnEveryExit ==
  (rpc = "done" /\ obs.camOpened) => (releases = 1 /\ ~capOpen)

\* C2: a failure of OpenFacePulse.start() never terminates the scheduler:
\* main does not die of it.
C2_StartFailureNotFatal ==
  obs.startFailed => mpc /= "crashed"

\* C3: after q/ESC in the capture loop pulse.finish() is invoked once before
\* run_preview ends, run_preview returns False (unless a Ctrl+C cuts the
\* finalize step short), the scheduler stops, and no later pulse is started.
C3_AbortFinalizesThenStops ==
  /\ (obs.abortKey /\ rpc \in {"cooldown", "done", "idle"}) => obs.finishCalls = 1
  /\ (obs.abortKey /\ rpc = "done") =>
       (result = "False" \/ (obs.interrupted /\ result = "KeyboardInterrupt"))
  /\ (obs.abortKey /\ rpc = "idle") =>
       (mpc = "stopped" \/ (obs.interrupted /\ mpc = "crashed"))
  /\ obs.abortedAt /= 0 => pulseNo = obs.abortedAt

C3_Witness ==
  /\ obs.abortKey /\ ~obs.interrupted
  /\ pulseNo = 2 /\ rpc = "idle" /\ mpc = "stopped"
  /\ obs.finishCalls = 1 /\ result = "False"

\* C4: after a Ctrl+C in any phase main does not die of an unhandled
\* exception, and when it has stopped, a pulse whose recording had started
\* has been finalized.
C4_InterruptOrderly ==
  obs.interrupted =>
    /\ mpc /= "crashed"
    /\ (mpc = "stopped" /\ obs.started) => obs.finishCalls = 1

\* C5: when the camera does not open, no recorder is started, the tool is
\* not run, the output directory (and so the session log) is untouched,
\* run_preview returns True after exactly PULSE_DURATION, and the scheduler
\* goes on to the next pulse.
C5_DeviceFailureSkipsPulse ==
  obs.camFailed =>
    /\ ~obs.started /\ writer = "none" /\ tmpdir = "none" /\ ~capOpen
    /\ obs.finishCalls = 0 /\ obs.toolRuns = 0
    /\ outDir = obs.dirAtEntry
    /\ ~obs.interrupted => ScheduleGoesOn
    /\ (rpc = "done" /\ result = "True") => now = obs.t_enter + PULSE_DURATION

C5_Witness ==
  /\ obs.camFailed /\ ~obs.interrupted
  /\ pulseNo = 1 /\ mpc = "wait_recurring"
  /\ now >= obs.t_enter + PULSE_DURATION

\* C6: when the extraction tool exits non-zero, finish() raises, the session
\* log is exactly as before, run_preview reports the failure, and (the pulse
\* having ended by its deadline) the scheduler goes on to the next pulse.
C6_ToolFailureLeavesLog ==
  obs.toolExit > 0 =>
    /\ obs.finishEnd = "tool_failed"
    /\ LogUntouched
    /\ errReported
    /\ EndedByDeadline => ScheduleGoesOn

C6_Witness ==
  /\ obs.toolExit > 0 /\ EndedByDeadline
  /\ mpc = "wait_recurring" /\ errReported

\* C7: when the tool exits 0 without writing a table, finish() fails and the
\* session log is untouched; a row is only built from the table this pulse's
\* invocation wrote.
C7_NoTableNoRow ==
  /\ (obs.finishCalls = 1 /\ obs.toolExit = 0 /\ ~obs.toolWrote) =>
       (obs.finishEnd /= "returned" /\ LogUntouched)
  /\ obs.finishEnd = "returned" => (obs.toolWrote /\ obs.usedCsv.kind = "pulse")

C9_EmptyTableNotLogged ==
  (obs.toolExit = 0 /\ obs.toolWrote /\ obs.toolRows = 0) =>
    /\ FinishEnded /\ obs.finishEnd /= "returned"
    /\ LogUntouched
    /\ errReported
    /\ EndedByDeadline => ScheduleGoesOn

C9_Witness ==
  /\ obs.toolExit = 0 /\ obs.toolWrote /\ obs.toolRows = 0
  /\ EndedByDeadline /\ mpc = "wait_recurring"
  /\ obs.finishEnd = "format_error"

\* C10: however finish() ends (success, non-zero exit of the tool, no table
\* found, failure while summarizing or logging), the temporary directory has
\* been released.
C10_TmpdirAlwaysReleased ==
  FinishEnded => obs.tmpAtEnd = "cleaned"

\* C14: the anchor, once set, is first_start + RECURRING_GAP, and the wake
\* time of every recurring pulse is anchor + k*RECURRING_GAP for an integer
\* k >= 0, however long the earlier pulse and its extraction lasted.
C14_WakeOnFixedGrid ==
  /\ mpc \in {"schedule", "wait_recurring", "run_recurring"} =>
       anchor = first_start + RECURRING_GAP
  /\ anchor /= NoTime => anchor = first_start + RECURRING_GAP
  /\ mpc \in {"wait_recurring", "run_recurring"} =>
       /\ abs_start >= anchor
       /\ (abs_start - anchor) % RECURRING_GAP = 0
  /\ abs_start /= NoTime => (abs_start - anchor) % RECURRING_GAP = 0

\* the first pulse overran the anchor, and the second pulse began at the
\* next point of the grid
C14_Witness ==
  /\ mpc = "run_recurring"
  /\ abs_start = anchor + RECURRING_GAP
  /\ obs.t_enter >= abs_start
  /\ obs.t_enter < abs_start + COUNTDOWN_POLL

\* C16: every call of finish() runs the extraction tool, whatever the number
\* of frames written: a pulse that took no frame at all is extracted too.
C16_EmptyRecordingExtracted ==
  /\ obs.toolRuns = obs.finishCalls
  /\ (rpc = "cooldown" /\ frames = 0) => obs.toolRuns = 1

\* every read failed until the deadline, and the tool was run on the
\* recording without frames
C16_Witness ==
  /\ rpc = "cooldown" /\ frames = 0 /\ obs.started /\ EndedByDeadline
  /\ obs.toolRuns = 1 /\ obs.toolExit >= 0

\* the summaries finish() handed on in this pulse
Handed == Range(obs.clsArg) \cup Range(obs.logArg)

\* C23 (as stated): every summary finish() passes on to the classifier or to
\* the session log has every declared channel as a key, whatever table the
\* extraction step handed over.
C23_EveryChannelInSummary ==
  \A s \in Handed : Channels \subseteq DOMAIN s

\* C23 (amended): every summary of a table with at least one row that
\* finish() passes on to the classifier, and every summary it passes on to
\* the session log, has every declared channel as a key; for a table
\* without rows the classifier is handed the empty summary, and the log
\* nothing.
C23_ChannelsUnlessNoRows ==
  /\ \A s \in Range(obs.logArg) : Channels \subseteq DOMAIN s
  /\ \A s \in Range(obs.clsArg) : (Channels \subseteq DOMAIN s \/ DOMAIN s = {})
  /\ \A s \in Range(obs.clsArg) :
       DOMAIN s = {} <=>
         (obs.usedCsv /= NoFile /\ DataRows(FileLines(outDir, obs.usedCsv)) = <<>>)
  /\ (obs.clsArg /= <<>> /\ DOMAIN obs.clsArg[1] = {}) => obs.logArg = <<>>
  /\ obs.finishEnd = "returned" => (obs.clsArg /= <<>> /\ obs.logArg /= <<>>)

\* the summarized file was the session log, which has no AU07_r column: the
\* summary handed to the log holds 0 for it
C23_Witness ==
  /\ obs.finishEnd = "returned" /\ obs.usedCsv = SessionCsv
  /\ obs.logArg /= <<>>
  /\ obs.logArg[1]["AU07_r"] = 0
  /\ Channels \subseteq DOMAIN obs.clsArg[1]

\* main is waiting: before the first pulse, or between two pulses
Waiting == rpc = "idle" /\ mpc \in {"wait_first", "schedule", "wait_recurring"}

\* C24: a camera handle is opened only when none is open (so at most one is
\* open at any time), none is open while the scheduler waits, and when
\* run_preview returns its result to the scheduler the handle it opened has
\* been released.
C24_NoHandleWhileWaiting ==
  /\ rpc = "open_cam" => ~capOpen
  /\ Waiting => ~capOpen
  /\ (rpc = "done" /\ result \in {"True", "False"}) =>
       (~capOpen /\ (obs.camOpened => releases = 1))

\* the gap after a pulse that had the camera open
C24_Witness ==
  /\ Waiting /\ mpc = "wait_recurring" /\ now < abs_start
  /\ obs.camOpened /\ releases = 1 /\ ~capOpen

\* run_preview is active (or has just ended) for a pulse
InPulse == rpc /= "idle"

\* C25: the first pulse is entered (and its camera open attempted) only
\* with the clock at or after t0 + FIRST_OFFSET, every recurring pulse only
\* with the clock at or after the wake time computed for its cycle.
C25_NotBeforeWakeTime ==
  /\ (InPulse /\ mpc = "run_first") => obs.t_enter >= first_start
  /\ (InPulse /\ mpc = "run_recurring") => obs.t_enter >= abs_start
  /\ rpc = "open_cam" => now = obs.t_enter
  /\ InPulse => mpc \in {"run_first", "run_recurring"}

\* a recurring pulse about to open the camera, the countdown's last sleep
\* having gone past the wake time
C25_Witness ==
  /\ rpc = "open_cam" /\ mpc = "run_recurring"
  /\ now > abs_start /\ now < abs_start + COUNTDOWN_POLL

\* run_preview is in or past the capture loop of a pulse whose start() succeeded
Recording == obs.started /\ rpc \in {"loop", "release", "finish", "cooldown", "done"}

\* C26 (as stated): no read of the capture loop is started at or after
\* (entry into run_preview + PULSE_DURATION), and the loop is left by its
\* deadline check as soon as the clock is found there.
C26_LoopEndsAtEntryPlusDuration ==
  Recording =>
    /\ obs.lastRead < obs.t_enter + PULSE_DURATION
    /\ (rpc = "release" /\ pending = "none") => now >= obs.t_enter + PULSE_DURATION

\* C26 (amended): the deadline is (the clock when the recorder has been
\* started, after the camera was opened and warmed up) + PULSE_DURATION; no
\* read is started at or after it, and the loop is left by the first check
\* that finds the clock there, with any number of frames, also with none.
C26_LoopEndsAtDeadline ==
  Recording =>
    /\ t_end = t_start + PULSE_DURATION
    /\ obs.lastRead < t_end
    /\ (rpc = "release" /\ pending = "none") => (now >= t_end /\ obs.lastRead >= t_start)
    /\ (rpc = "loop" /\ now >= t_end) => ~ENABLED (ReadFrame \/ ReadFail)

\* the loop was left by the deadline check although every read had failed,
\* the last one having been started after entry + PULSE_DURATION
C26_Witness ==
  /\ Recording /\ rpc = "release" /\ pending = "none"
  /\ frames = 0 /\ now >= t_end
  /\ obs.lastRead >= obs.t_enter + PULSE_DURATION
  /\ obs.lastRead < t_end

C28_FinishOnceAfterRelease ==
  /\ obs.finishCalls <= 1
  /\ (obs.started /\ rpc \in {"cooldown", "done"}) => obs.finishCalls = 1
  /\ rpc = "finish" => (obs.finishCalls = 0 /\ releases = 1 /\ ~capOpen)
  /\ obs.finishCalls = 1 => (obs.started /\ releases = 1 /\ ~capOpen)
  /\ obs.camFailed => obs.finishCalls = 0

\* the loop was left by an exception, and the pulse was finalized after the
\* release
C28_Witness ==
  /\ obs.started /\ obs.loopExc /\ ~obs.interrupted
  /\ rpc = "done" /\ result = "Exception"
  /\ obs.finishCalls = 1 /\ releases = 1 /\ ~capOpen

\* C29: the wake time of a recurring cycle is strictly greater than that of
\* the cycle before (a whole number of gaps later), and lies in the future
\* when it is computed, so a slot missed by an overrunning pulse is never
\* run afterwards.
C29_WakeTimesIncrease ==
  /\ obs.prevStart /= NoTime =>
       /\ abs_start > obs.prevStart
       /\ (abs_start - obs.prevStart) % RECURRING_GAP = 0
  /\ abs_start /= NoTime => abs_start >= obs.schedAt + MIN_LEAD
  /\ (InPulse /\ mpc = "run_recurring") => obs.t_enter < abs_start + RECURRING_GAP

\* a pulse whose extraction overran the next slot: that slot is skipped
C29_Witness ==
  /\ obs.prevStart /= NoTime
  /\ obs.schedAt > obs.prevStart + RECURRING_GAP
  /\ abs_start = obs.prevStart + 2 * RECURRING_GAP

\* C30: once the finalize step of a pulse is through (no Ctrl+C, no
\* exception in the loop), run_preview returns False exactly when the abort
\* key was read and True otherwise, whether or not the finalize step failed;
\* main stops on False and goes on to the next wake time on True.
C30_ResultFollowsAbortOnly ==
  (obs.finishCalls = 1 /\ FinishEnded /\ ~obs.interrupted /\ ~obs.loopExc) =>
    /\ rpc = "done" => result = (IF obs.abortKey THEN "False" ELSE "True")
    /\ rpc = "idle" => IF obs.abortKey
                       THEN mpc = "stopped"
                       ELSE mpc \in {"schedule", "wait_recurring"}

\* the first pulse ended at its deadline and went on; in the second the
\* abort key was read and the finalize step failed: the schedule stops
C30_Witness ==
  /\ obs.abortKey /\ ~obs.interrupted /\ ~obs.loopExc
  /\ obs.finishEnd \in {"tool_failed", "no_csv", "format_error"} /\ errReported
  /\ pulseNo = 2 /\ obs.keepChecks = 2
  /\ result = "False" /\ rpc = "idle" /\ mpc = "stopped"

(***************************************************************************)
(* next_start_after called on its own: any anchor, gap and clock.          *)
(***************************************************************************)
\* the clock values tried are 0, 50, ..., 50 * MaxTick (ms)
MaxTick == 60
NextStartAnchors == {0, 500, 1000}
NextStartGaps == {50, 100, 150, 200, 250, 500, 1000}
NextStartClocks == {50 * i : i \in 0..MaxTick}

NextStartInit ==
  /\ InitProgram
  /\ call \in {[fn |-> "next_start_after", anchor |-> a, gap |-> g, now |-> n,
                done |-> FALSE, ret |-> NoTime] :
                 a \in NextStartAnchors, g \in NextStartGaps, n \in NextStartClocks}

CallNextStart ==
  /\ call.fn = "next_start_after"
  /\ ~call.done
  /\ call' = [call EXCEPT !.done = TRUE,
                          !.ret = next_start_after(call.anchor, call.gap, call.now)]
  /\ UNCHANGED prog_vars

SpecNextStart == NextStartInit /\ [][CallNextStart]_vars

NextStartDone == call.fn = "next_start_after" /\ call.done

\* the smallest anchor + k*gap, k >= 1, strictly greater than the clock
GridAfter(a, g, n) ==
  LET grid == {a + k * g : k \in 1..(((Max(n, a) - a) \div g) + 2)}
  IN  CHOOSE s \in grid : s > n /\ \A t \in grid : t > n => s <= t

\* C11 (as stated): for every now < anchor the result is exactly anchor.
C11_BeforeAnchorReturnsAnchor ==
  (NextStartDone /\ call.now < call.anchor) => call.ret = call.anchor

\* C11 (amended): for every now <= anchor - MIN_LEAD the result is exactly
\* anchor; for anchor - MIN_LEAD < now < anchor it is anchor + gap.
C11_BeforeAnchorWithLead ==
  (NextStartDone /\ call.now < call.anchor) =>
    /\ call.now <= call.anchor - MIN_LEAD => call.ret = call.anchor
    /\ call.now > call.anchor - MIN_LEAD => call.ret = call.anchor + call.gap

C11_Witness ==
  /\ NextStartDone
  /\ call.now < call.anchor /\ call.now > call.anchor - MIN_LEAD
  /\ call.ret = call.anchor + call.gap

\* C12: for every now >= anchor the result is s, the smallest anchor + k*gap
\* (k >= 1) strictly greater than now, unless s < now + MIN_LEAD, in which
\* case it is s + gap.
C12_GridPointAfterNow ==
  (NextStartDone /\ call.now >= call.anchor) =>
    LET s == GridAfter(call.anchor, call.gap, call.now)
    IN  call.ret = IF s < call.now + MIN_LEAD THEN s + call.gap ELSE s

C12_Witness ==
  /\ NextStartDone /\ call.now > call.anchor
  /\ GridAfter(call.anchor, call.gap, call.now) < call.now + MIN_LEAD
  /\ call.ret = GridAfter(call.anchor, call.gap, call.now) + call.gap
  /\ call.ret >= call.now + MIN_LEAD

MaxCalls == 4

\* lines 35-44: __init__
RecorderInit ==
  /\ now = 0 /\ mpc = "wait_first" /\ rpc = "idle" /\ pulseNo = 1
  /\ first_start = FIRST_OFFSET /\ anchor = NoTime /\ abs_start = NoTime
  /\ capOpen = FALSE /\ releases = 0
  /\ writer = "none" /\ frames = 0 /\ t_start = NoTime /\ t_end_rec = NoTime
  /\ tmpdir = "live" /\ videoTs = 0
  /\ t_end = NoTime /\ pending = "none" /\ result = "none"
  /\ outDir \in InitialDirs
  /\ errReported = FALSE
  /\ obs = Merge(PulseObs0, RunObs0)
  /\ call = [fn |-> "OpenFacePulse", phase |-> "new", last |-> "__init__",
             raised |-> FALSE, before |-> 0, wrote |-> 0, n |-> 0]

Called(method, phase, raised, wrote) ==
  [call EXCEPT !.phase = phase, !.last = method, !.raised = raised,
               !.before = frames, !.wrote = wrote, !.n = @ + 1]

\* lines 47-52: start(), the writer opening or not
RecStart ==
  /\ call.fn = "OpenFacePulse" /\ call.n < MaxCalls
  /\ \E opened \in BOOLEAN :
       IF opened
       THEN /\ writer' = "open"
            /\ t_start' = now
            /\ call' = Called("start", "started", FALSE, 0)
       ELSE /\ writer' = "unopened"
            /\ t_start' = t_start
            /\ call' = Called("start", "start_failed", TRUE, 0)
  /\ UNCHANGED <<now, main_vars, rpc, pulseNo, capOpen, releases, frames,
                 t_end_rec, tmpdir, videoTs, t_end, pending, result, outDir,
                 errReported, obs>>

\* lines 57-61: write(frame)
RecWrite ==
  /\ call.fn = "OpenFacePulse" /\ call.n < MaxCalls
  /\ LET w == write(writer, frames)
     IN  /\ frames' = w.frames
         /\ call' = Called("write", call.phase, w.raised, w.written)
  /\ UNCHANGED <<now, main_vars, rpc, pulseNo, capOpen, releases, writer,
                 t_start, t_end_rec, tmpdir, videoTs, t_end, pending, result,
                 outDir, errReported, obs>>

\* lines 65-110: finish()
RecFinish ==
  /\ call.fn = "OpenFacePulse" /\ call.n < MaxCalls
  /\ \E e \in ExtractTimes, tool \in ToolOutcomes :
       LET r == finish(outDir, now, t_start, pulseNo, videoTs, e, tool.rc,
                       tool.wrote, tool.table)
       IN  /\ now' = now + e
           /\ outDir' = r.dir
           /\ tmpdir' = IF r.end = "returned" THEN r.tmp ELSE tmpdir
           /\ call' = Called("finish", "finished", r.end /= "returned", 0)
  /\ writer' = "none"
  /\ t_end_rec' = now
  /\ UNCHANGED <<main_vars, rpc, pulseNo, capOpen, releases, frames, t_start,
                 videoTs, t_end, pending, result, errReported, obs>>

RecorderNext == RecStart \/ RecWrite \/ RecFinish

SpecRecorder == RecorderInit /\ [][RecorderNext]_vars

\* C15: write() before start() or after finish() raises, puts no frame into
\* the video and leaves the frame count; between start() and finish() each
\* write() adds exactly one to the frame count (and one frame to the video).
C15_WriteOnlyWhileRecording ==
  (call.fn = "OpenFacePulse" /\ call.last = "write") =>
    /\ call.phase \in {"new", "finished"} =>
         (call.raised /\ call.wrote = 0 /\ frames = call.before)
    /\ call.phase = "started" =>
         (~call.raised /\ call.wrote = 1 /\ frames = call.before + 1)

\* a write() after finish() on a recorder that had taken a frame
C15_Witness ==
  /\ call.fn = "OpenFacePulse" /\ call.last = "write"
  /\ call.phase = "finished" /\ call.raised
  /\ frames = 1 /\ call.before = 1

(***************************************************************************)
(* _append_session_row called on its own, several times in a row, on a     *)
(* directory with or without a session log (openface_pulse.py 197-219).    *)
(*   call.n       appends so far                                           *)
(*   call.first   the lines of the log before the first append             *)
(*   call.prev    the lines of the log before the last append              *)
(*   call.row     the row the last append was to write                     *)
(***************************************************************************)
\* appends of one run
MaxAppends == 3

\* summaries to log: of a table with two rows, of one with a single row and
\* no start time, and the empty summary of a table without rows
LogSummaries ==
  {PriorSummary,
   summarize_csv(<<ToolHeader, FrownRow>>, NoTime, 0),
   summarize_csv(EmptyTable, 0, 0)}

LogDirs == {<<>>, WriteFile(<<>>, TableName(0), FaceTable), PriorDir}

LogInit ==
  /\ now = 0 /\ mpc = "wait_first" /\ rpc = "idle" /\ pulseNo = 0
  /\ first_start = FIRST_OFFSET /\ anchor = NoTime /\ abs_start = NoTime
  /\ capOpen = FALSE /\ releases = 0
  /\ writer = "none" /\ frames = 0 /\ t_start = NoTime /\ t_end_rec = NoTime
  /\ tmpdir = "live" /\ videoTs = 0
  /\ t_end = NoTime /\ pending = "none" /\ result = "none"
  /\ outDir \in LogDirs
  /\ errReported = FALSE
  /\ obs = Merge(PulseObs0, RunObs0)
  /\ call = [fn |-> "_append_session_row", n |-> 0, first |-> LogLines(outDir),
             prev |-> LogLines(outDir), row |-> SessionRow(PriorSummary, NoFile, 0, 0)]

LogAppend ==
  /\ call.fn = "_append_session_row" /\ call.n < MaxAppends
  /\ \E summary \in LogSummaries :
       /\ outDir' = append_session_row(outDir, summary, TableName(0), call.n + 1, now)
       /\ call' = [call EXCEPT !.n = @ + 1, !.prev = LogLines(outDir),
                               !.row = SessionRow(summary, TableName(0), call.n + 1, now)]
  /\ UNCHANGED <<now, main_vars, rpc, pulseNo, capOpen, releases, pulse_vars,
                 t_end, pending, result, errReported, obs>>

SpecLog == LogInit /\ [][LogAppend]_vars

\* C17: the first append on an absent log writes the header and one row;
\* every later append adds exactly one row at the end, no header, and leaves
\* the earlier lines as they were: after n appends on an absent log the file
\* is the header followed by n rows.
C17_LogAppendOnly ==
  (call.fn = "_append_session_row" /\ call.n >= 1) =>
    LET L == LogLines(outDir)
    IN  /\ Len(L) = Len(call.first) + call.n + (IF call.first = <<>> THEN 1 ELSE 0)
        /\ Len(L) = Len(call.prev) + (IF call.prev = <<>> THEN 2 ELSE 1)
        /\ SubSeq(L, 1, Len(call.prev)) = call.prev
        /\ SubSeq(L, 1, Len(call.first)) = call.first
        /\ L[1] = header
        /\ L[Len(L)] = call.row
        /\ call.first = <<>> => Len(DataRows(L)) = call.n

\* three appends on an absent log: the header and three rows
C17_Witness ==
  /\ call.fn = "_append_session_row" /\ call.n = 3
  /\ call.first = <<>>
  /\ Len(LogLines(outDir)) = 4
  /\ LogLines(outDir)[1] = header
  /\ SubSeq(LogLines(outDir), 1, 3) = call.prev

(***************************************************************************)
(* _classify_expression called on its own, twice on the same mapping       *)
(* (openface_pulse.py lines 151-194).                                      *)
(*   call.s       the feature mapping                                      *)
(*   call.n       calls so far                                             *)
(*   call.first   the (label, score) of the first call                     *)
(*   call.ret     the (label, score) of the last call                      *)
(***************************************************************************)
\* the channels the classifier reads
ClassifierChannels ==
  {"AU01_r", "AU02_r", "AU04_r", "AU06_r", "AU07_r", "AU09_r", "AU10_r",
   "AU12_r", "AU15_r", "AU23_r", "AU26_r"}
\* values of a channel, in 0.001: negative, zero, around the thresholds,
\* the top of the scale, and beyond it
FeatureValues == {-500, 0, 200, 400, 1000, 5000}
\* channels present in a generated mapping
MaxPresent == 2

\* the vector of the documented example
HappyVector ==
  [k \in {"AU12_r", "AU04_r", "AU06_r", "AU25_r", "AU26_r", "AU45_c"} |->
     CASE k = "AU12_r" -> 900
       [] k = "AU04_r" -> 100
       [] k = "AU06_r" -> 800
       [] k = "AU25_r" -> 100
       [] k = "AU26_r" -> 0
       [] k = "AU45_c" -> 100]

\* the vector of the second documented example, every other channel 0
SadVector ==
  [k \in Channels |->
     CASE k = "AU01_r" -> 500
       [] k = "AU04_r" -> 800
       [] k = "AU12_r" -> 100
       [] k = "AU15_r" -> 300
       [] OTHER -> 0]

FeatureVectors ==
  UNION {[D -> FeatureValues] :
           D \in {D \in SUBSET ClassifierChannels : Cardinality(D) <= MaxPresent}}
  \cup {HappyVector, SadVector, summarize_csv(FaceTable, 0, 6000),
        summarize_csv(<<ToolHeader, FrownRow>>, 0, 6000)}

NoResult == <<"none", 0>>

ClassifyInit ==
  /\ InitProgram
  /\ call \in {[fn |-> "_classify_expression", s |-> s, n |-> 0,
                first |-> NoResult, ret |-> NoResult] : s \in FeatureVectors}

CallClassify ==
  /\ call.fn = "_classify_expression"
  /\ call.n < 2
  /\ call' = [call EXCEPT !.n = @ + 1,
                          !.first = IF call.n = 0 THEN classify_expression(call.s) ELSE @,
                          !.ret = classify_expression(call.s)]
  /\ UNCHANGED prog_vars

SpecClassify == ClassifyInit /\ [][CallClassify]_vars

Labels == {"happy", "sad", "anger", "surprise", "disgust", "neutral"}
LabelOrder == <<"happy", "sad", "anger", "surprise", "disgust", "neutral">>
Classified == call.fn = "_classify_expression" /\ call.n >= 1

\* C18: for every feature mapping the classifier returns one label of the
\* six with a score within [0, 1] (0..10000 in units of 0.0001), and a
\* second call on the same mapping returns the same (label, score).
C18_OneLabelScoreInRange ==
  Classified =>
    /\ call.ret[1] \in Labels
    /\ call.ret[2] >= 0 /\ call.ret[2] <= 10000
    /\ call.ret = call.first

\* a mapping whose raw happy score is beyond 1 (smile 1.0 and the Duchenne
\* bonus), classified twice
C18_Witness ==
  /\ Classified /\ call.n = 2
  /\ score_happy(call.s) > 10000
  /\ call.ret = <<"happy", 10000>>

\* C19: the result is the candidate with the greatest clamped score, the
\* candidates being in the order happy, sad, anger, surprise, disgust,
\* neutral; of several candidates with the greatest score the earliest in
\* that order is returned.
C19_ArgMaxFirstWins ==
  Classified =>
    LET cs == candidates(call.s)
    IN  /\ Len(cs) = 6
        /\ \A j \in 1..6 : cs[j][1] = LabelOrder[j]
        /\ \A j \in 1..6 : cs[j][2] <= call.ret[2]
        /\ \E i \in 1..6 :
             /\ cs[i] = call.ret
             /\ \A j \in 1..(i - 1) : cs[j][2] < call.ret[2]

\* sad and anger share the greatest score, and sad is returned
C19_Witness ==
  /\ Classified
  /\ candidates(call.s)[2][2] = candidates(call.s)[3][2]
  /\ candidates(call.s)[2][2] > candidates(call.s)[1][2]
  /\ \A j \in 1..6 : candidates(call.s)[j][2] <= candidates(call.s)[2][2]
  /\ call.ret[1] = "sad"

\* C20: the vector AU12_r 0.9, AU04_r 0.1, AU06_r 0.8, AU25_r 0.1,
\* AU26_r 0.0, AU45_c 0.1 is classified happy.
C20_ExampleIsHappy ==
  (Classified /\ call.s = HappyVector) => call.ret[1] = "happy"

C20_Witness ==
  /\ Classified /\ call.s = HappyVector
  /\ call.ret = <<"happy", 10000>>

\* C21: the vector AU01_r 0.5, AU04_r 0.8, AU12_r 0.1, AU15_r 0.3, AU06_r 0.0,
\* every other channel 0, is classified sad or anger, and the winner is sad,
\* with the score 0.9 against 0.75 for anger.
C21_ExampleIsSad ==
  (Classified /\ call.s = SadVector) =>
    /\ call.ret[1] \in {"sad", "anger"}
    /\ call.ret = <<"sad", 9000>>
    /\ candidates(call.s)[3] = <<"anger", 7500>>

C21_Witness ==
  /\ Classified /\ call.s = SadVector
  /\ call.ret = <<"sad", 9000>>
  /\ candidates(call.s)[3][2] = 7500

(***************************************************************************)
(* _summarize_csv called on its own on a table of the extraction tool      *)
(* (openface_pulse.py lines 113-149).                                      *)
(*   call.lines   the file: the header line and the rows                   *)
(*   call.done    the call has returned                                    *)
(*   call.ret     the summary returned                                     *)
(***************************************************************************)
\* rows of a generated table
MaxRows == 2
\* what a cell of a generated row holds
SummaryCells == {Empty, Cell(300), Cell(900)}

\* a row of the tool: three channels vary, one column (AU45_c) is missing
\* from the file, the others hold 0
TableRow(a, b, c) ==
  [k \in Channels \ {"AU45_c"} |->
     CASE k = "AU12_r" -> a
       [] k = "AU04_r" -> b
       [] k = "pose_Rx" -> c
       [] OTHER -> Cell(0)]
TableRows == {TableRow(a, b, c) : a \in SummaryCells, b \in SummaryCells, c \in SummaryCells}
TableHeader == SelectSeq(ToolHeader, LAMBDA c : c /= "AU45_c")
SummaryTables ==
  UNION {{<<TableHeader>> \o rows : rows \in [1..n -> TableRows]} : n \in 0..MaxRows}

SummarizeInit ==
  /\ InitProgram
  /\ outDir = <<>>
  /\ call \in {[fn |-> "_summarize_csv", lines |-> t, done |-> FALSE,
                ret |-> [k \in {} |-> 0]] : t \in SummaryTables}

CallSummarize ==
  /\ call.fn = "_summarize_csv"
  /\ ~call.done
  /\ call' = [call EXCEPT !.done = TRUE,
                          !.ret = summarize_csv(call.lines, 0, PULSE_DURATION)]
  /\ UNCHANGED prog_vars

SpecSummarize == SummarizeInit /\ [][CallSummarize]_vars

Summarized == call.fn = "_summarize_csv" /\ call.done

\* the rows of the table whose cell for channel k is not empty
Valued(rows, k) == {i \in 1..Len(rows) : Get(rows[i], k, Empty) /= Empty}

RECURSIVE SumOver(_, _, _)
SumOver(rows, k, idx) ==
  IF idx = {} THEN 0
  ELSE LET i == CHOOSE i \in idx : TRUE
       IN  rows[i][k][1] + SumOver(rows, k, idx \ {i})

\* C22: for a table with at least one row and every declared channel, the
\* summary holds the sum of the channel's non-empty values divided by their
\* number (values in 0.001, the quotient rounded down), and 0 for a channel
\* without a non-empty value.
C22_MeanOfNonEmpty ==
  (Summarized /\ Len(call.lines) > 1) =>
    LET rows == Tail(call.lines)
    IN  \A k \in Channels :
          /\ k \in DOMAIN call.ret
          /\ call.ret[k] =
               IF Valued(rows, k) = {} THEN 0
               ELSE SumOver(rows, k, Valued(rows, k)) \div Cardinality(Valued(rows, k))

\* two rows: one channel with an empty and a non-empty cell, one without
\* any value, one with two values
C22_Witness ==
  /\ Summarized /\ Len(call.lines) = 3
  /\ Cardinality(Valued(Tail(call.lines), "AU12_r")) = 1
  /\ call.ret["AU12_r"] = 900
  /\ Valued(Tail(call.lines), "AU04_r") = {}
  /\ call.ret["AU04_r"] = 0
  /\ call.ret["pose_Rx"] = 600
  /\ call.ret["AU45_c"] = 0

====
